---- MODULE Spec2Model ----
(***************************************************************************)
(* Order aggregate of the restaurant back office (orders/models.py):       *)
(* the status state machine, the line items and the financial totals of    *)
(* one order, as stored in the database (db) and as held by the Python     *)
(* instance the operations are called on (mem); the numbering of the       *)
(* orders of a day; and the stock of one product with its ledger of stock  *)
(* movements (products/models.py, signals.py, admin.py).                   *)
(*                                                                         *)
(* Money is an integer number of thousandths of the currency unit          *)
(* (10050 = 10.05): a DecimalField stores 2 decimal places (a multiple of  *)
(* 10), while (subtotal + delivery_fee) * Decimal('0.10') carries a third  *)
(* significant decimal place in memory until it is stored.                 *)
(***************************************************************************)
EXTENDS Integers, Sequences, FiniteSets, TLC

\* ------------------------------------------------------------------ bounds
MaxItems   == 1     \* line items an order holds at once
MaxCustoms == 1     \* customizations one line item holds
MaxClock   == 5     \* the last instant at which an operation may save
MaxOrders  == 6     \* orders the table holds at once
MaxDays    == 3     \* the last calendar day
MaxMovements == 3   \* StockMovement rows the ledger holds
MaxStock   == 8     \* the largest stock_quantity an increase may reach
MaxNumber  == 7     \* the highest order number given out on a day

\* ------------------------------------------------------- program constants
DEFAULT_DELIVERY_FEE == 5000    \* Decimal('5.00')
TAX_RATE_PCT         == 10      \* Decimal('0.10'), as a percentage
DECIMAL_PLACES_UNIT  == 10      \* decimal_places=2: one cent, in thousandths

NullTime == 0                   \* a NULL DateTimeField
NoUser   == "None"              \* user=None

STATUS_CHOICES ==
    {"open", "preparing", "ready", "out_for_delivery", "delivered", "cancelled"}

\* the table with one more entry: a ready order may be cancelled
VALID_TRANSITIONS_ready_cancel ==
    [s \in STATUS_CHOICES |->
        CASE s = "open"             -> {"preparing", "cancelled"}
          [] s = "preparing"        -> {"ready", "cancelled"}
          [] s = "ready"            -> {"out_for_delivery", "delivered", "cancelled"}
          [] s = "out_for_delivery" -> {"delivered"}
          [] s = "delivered"        -> {}
          [] s = "cancelled"        -> {}]

\* the table with one more entry: a cancelled order may be reopened
VALID_TRANSITIONS_reopen ==
    [s \in STATUS_CHOICES |->
        CASE s = "open"             -> {"preparing", "cancelled"}
          [] s = "preparing"        -> {"ready", "cancelled"}
          [] s = "ready"            -> {"out_for_delivery", "delivered"}
          [] s = "out_for_delivery" -> {"delivered"}
          [] s = "delivered"        -> {}
          [] s = "cancelled"        -> {"open"}]

VALID_TRANSITIONS ==
    [s \in STATUS_CHOICES |->
        CASE s = "open"             -> {"preparing", "cancelled"}
          [] s = "preparing"        -> {"ready", "cancelled"}
          [] s = "ready"            -> {"out_for_delivery", "delivered"}
          [] s = "out_for_delivery" -> {"delivered"}
          [] s = "delivered"        -> {}
          [] s = "cancelled"        -> {}]

\* ---------------------------------------------------------- input domains
Products   == {"burger", "soda"}
Quantities == {1, 2}
Extras     == {1000}                    \* extra_price of a customization
Discounts  == {0, 1000}
SalePrices  == {0, 20000}               \* sale_price typed into the form
PromoPrices == {0, 5000}                \* promotional_price; 0 is "none"
PRODUCT_STATUS == {"active", "inactive", "out_of_stock", "coming_soon"}
MovementInputs == {<<"in", 3>>, <<"out", -5>>}
                                        \* movement_type, signed quantity
StockTargets   == {0, 4}                \* quantity posted to update_stock
StockQuantities == {5}                  \* quantity of reduce / increase
Units      == {1, 3}                    \* units taken or returned by one call
Requests   == {"r1", "r2"}           \* requests creating an order
Users      == {NoUser, "", "ana"}       \* None, empty full name, a full name

VARIABLES
    db,        \* the stored Order row
    mem,       \* the Order instance the operations are called on
    items,     \* the stored OrderItem rows of the order, by created_at
    history,   \* the stored OrderStatusHistory rows, oldest first
    products,  \* the stored Product rows (prices)
    now,       \* timezone.now()
    target,    \* new_status of the change_status call that is about to save
    result,    \* what the operation last invoked returned or raised
    recomp,    \* how the totals were last computed since the order's items,
               \* is_delivery or discount changed: "stale" (not yet),
               \* "calc1"/"calc2" (calculate_totals once / again),
               \* "save1"/"save2" (Order.save once / again)
    orders,    \* order_number and creation day of every stored Order row,
               \* by created_at
    today,     \* timezone.now().date()
    reqs,      \* the requests that create an order, each with its position
               \* in Order.save and the number it computed
    prod,      \* the stored Product row whose stock is followed
    ledger,    \* the stored StockMovement rows of that product, oldest first
    chosen,    \* the status an operator last gave that product (in the form
               \* or by activate_products)
    sreqs,     \* the requests that change the stock step by step, each with
               \* its position, the Product instance it loaded, the movement
               \* it is recording and the change of quantity it has made
    oreqs      \* the requests that work on the order at the same time, each
               \* with its position and the Order instance it loaded

\* the order table's numbering columns
numberVars == <<orders, today, reqs>>

\* what the operations on the one order and on the prices leave alone
\* the stock columns of one product and its movements
stockVars == <<prod, ledger, chosen, sreqs>>

otherTables == <<numberVars, stockVars, oreqs>>

vars == <<db, mem, items, history, products, now, target, result, recomp,
          orders, today, reqs, prod, ledger, chosen, sreqs, oreqs>>

\* ------------------------------------------------------------- arithmetic
Abs(n) == IF n < 0 THEN -n ELSE n

\* Decimal.quantize(Decimal('0.01')) under the default context
\* (ROUND_HALF_EVEN), which DecimalField applies to a value it writes
\* (django.db.backends.utils.format_number).
Quantize(m) ==
    LET a == Abs(m)
        q == a \div DECIMAL_PLACES_UNIT
        r == a % DECIMAL_PLACES_UNIT
        n == IF 2 * r > DECIMAL_PLACES_UNIT
                \/ (2 * r = DECIMAL_PLACES_UNIT /\ q % 2 = 1)
             THEN q + 1 ELSE q
    IN  (IF m < 0 THEN -n ELSE n) * DECIMAL_PLACES_UNIT

RECURSIVE SumSeq(_)
SumSeq(s) == IF s = <<>> THEN 0 ELSE Head(s) + SumSeq(Tail(s))

\* ---------------------------------------------------------------- Product
current_price(p) ==
    IF p.promotional_price # 0 /\ p.promotional_price < p.sale_price
    THEN p.promotional_price
    ELSE p.sale_price

\* signals.update_product_status (pre_save of Product)
update_product_status(p) ==
    IF p.manage_stock
    THEN IF p.stock_quantity <= 0
         THEN [p EXCEPT !.status = "out_of_stock"]
         ELSE IF p.status = "out_of_stock" /\ p.stock_quantity > 0
              THEN [p EXCEPT !.status = "active"]
              ELSE p
    ELSE p

\* Product.save: the row stored when instance p is saved (the status line
\* of save, then the pre_save receiver inside super().save())
Product_save(p) ==
    LET p1 == IF p.manage_stock /\ p.stock_quantity <= 0
              THEN [p EXCEPT !.status = "out_of_stock"]
              ELSE p
    IN  update_product_status(p1)

\* is_available testing the quantity also when the stock is not managed
is_available_any_stock(p) ==
    IF ~p.active THEN FALSE
    ELSE IF p.stock_quantity <= 0 THEN FALSE
    ELSE IF p.status \notin {"active", "coming_soon"} THEN FALSE
    ELSE TRUE

\* Product.is_available
is_available(p) ==
    IF ~p.active THEN FALSE
    ELSE IF p.manage_stock /\ p.stock_quantity <= 0 THEN FALSE
    ELSE IF p.status \notin {"active", "coming_soon"} THEN FALSE
    ELSE TRUE

\* a request that has not loaded the order
IdleOrderRequest == [pc |-> "idle", order |-> <<>>, op |-> "-", returned |-> "None"]

\* a request that has not loaded the product
IdleRequest ==
    [pc |-> "idle", product |-> <<>>, row |-> <<>>, delta |-> 0, returned |-> "None"]

\* a new stock-managed product with 5 units
NewProduct ==
    [manage_stock   |-> TRUE,
     stock_quantity |-> 5,
     status         |-> "active",
     active         |-> TRUE]

\* a StockMovement row as its creator fills it in: previous_quantity is the
\* product's quantity, new_quantity the quantity after the signed change
movement_row(p, movement_type, quantity) ==
    [movement_type     |-> movement_type,
     quantity          |-> quantity,
     previous_quantity |-> p.stock_quantity,
     new_quantity      |-> p.stock_quantity + quantity]

\* signals.update_product_stock_from_movement (post_save of a created
\* StockMovement): the product takes new_quantity and is saved
update_product_stock_from_movement(p, row) ==
    Product_save([p EXCEPT !.stock_quantity = row.new_quantity])

\* the subtotal with the extras counted once, not once per unit
item_subtotal_flat_extras(it) ==
    LET base_price == it.unit_price * it.quantity
        extras     == SumSeq(it.extras)
    IN  base_price + extras

\* OrderItem.subtotal: unit_price * quantity + extras * quantity
item_subtotal(it) ==
    LET base_price == it.unit_price * it.quantity
        extras     == SumSeq(it.extras)
    IN  base_price + (extras * it.quantity)

RECURSIVE items_total(_)
items_total(its) ==
    IF its = <<>> THEN 0 ELSE item_subtotal(Head(its)) + items_total(Tail(its))

\* ------------------------------------------------------------------ Order
\* calculate_totals adding the delivery fee at every run
calculate_totals_accumulate(o, its) ==
    LET sub == items_total(its)
        fee == IF o.is_delivery
               THEN o.delivery_fee + DEFAULT_DELIVERY_FEE
               ELSE o.delivery_fee
        tax == ((sub + fee) * TAX_RATE_PCT) \div 100
    IN  [o EXCEPT !.subtotal     = sub,
                  !.delivery_fee = fee,
                  !.tax          = tax,
                  !.total        = sub + fee + tax - o.discount]

\* calculate_totals deriving the fee from is_delivery alone
calculate_totals_reset_fee(o, its) ==
    LET sub == items_total(its)
        fee == IF o.is_delivery THEN DEFAULT_DELIVERY_FEE ELSE 0
        tax == ((sub + fee) * TAX_RATE_PCT) \div 100
    IN  [o EXCEPT !.subtotal     = sub,
                  !.delivery_fee = fee,
                  !.tax          = tax,
                  !.total        = sub + fee + tax - o.discount]

calculate_totals(o, its) ==
    LET sub == items_total(its)
        fee == IF o.is_delivery /\ o.delivery_fee = 0
               THEN DEFAULT_DELIVERY_FEE
               ELSE o.delivery_fee
        tax == ((sub + fee) * TAX_RATE_PCT) \div 100
    IN  [o EXCEPT !.subtotal     = sub,
                  !.delivery_fee = fee,
                  !.tax          = tax,
                  !.total        = sub + fee + tax - o.discount]

\* the timestamps without the `not self.prepared_at` tests
stamp_status_overwrite(o, t) ==
    IF o.status = "preparing"
    THEN [o EXCEPT !.prepared_at = t]
    ELSE IF o.status = "delivered"
         THEN [o EXCEPT !.delivered_at = t]
         ELSE o

\* the timestamps without the delivered branch
stamp_status_prepared_only(o, t) ==
    IF o.status = "preparing" /\ o.prepared_at = NullTime
    THEN [o EXCEPT !.prepared_at = t]
    ELSE o

\* Order.save, lines 212-216: the status timestamps
stamp_status(o, t) ==
    IF o.status = "preparing" /\ o.prepared_at = NullTime
    THEN [o EXCEPT !.prepared_at = t]
    ELSE IF o.status = "delivered" /\ o.delivered_at = NullTime
         THEN [o EXCEPT !.delivered_at = t]
         ELSE o

\* super().save(): every field of the instance is written, money at 2 places
write_row(o) ==
    [o EXCEPT !.subtotal     = Quantize(o.subtotal),
              !.delivery_fee = Quantize(o.delivery_fee),
              !.discount     = Quantize(o.discount),
              !.tax          = Quantize(o.tax),
              !.total        = Quantize(o.total)]

\* ----------------------------------------------------------- order number
\* str(n): the decimal digits of a natural number
RECURSIVE Digits(_)
Digits(n) == IF n < 10 THEN <<n>> ELSE Append(Digits(n \div 10), n % 10)

\* zero padding on the left up to width w
RECURSIVE ZeroPad(_, _)
ZeroPad(s, w) == IF Len(s) >= w THEN s ELSE ZeroPad(<<0>> \o s, w)

\* f"{new_number:03d}"
Format03d(n) == ZeroPad(Digits(n), 3)

\* int(...) of a string of digits
RECURSIVE ParseInt(_)
ParseInt(s) ==
    IF s = <<>> THEN 0
    ELSE ParseInt(SubSeq(s, 1, Len(s) - 1)) * 10 + s[Len(s)]

\* f"PD-{date_str}-{new_number:03d}": the three parts between the dashes
OrderNumber(day, n) == <<"PD", day, Format03d(n)>>

\* order_number.split('-')[-1]
Suffix(order_number) == order_number[Len(order_number)]

\* the rows of a given creation day, by created_at
RECURSIVE OrdersOfDay(_, _)
OrdersOfDay(rows, day) ==
    IF rows = <<>> THEN <<>>
    ELSE IF Head(rows).day = day
         THEN <<Head(rows)>> \o OrdersOfDay(Tail(rows), day)
         ELSE OrdersOfDay(Tail(rows), day)

NoOrder == [order_number |-> <<>>, day |-> 0]      \* .last() returned None

\* the number taken from the first order of the day
last_order_first(rows, day) ==
    LET same == OrdersOfDay(rows, day)
    IN  IF same = <<>> THEN NoOrder ELSE same[1]

\* Order.objects.filter(created_at__date=today).order_by('created_at').last()
last_order(rows, day) ==
    LET same == OrdersOfDay(rows, day)
    IN  IF same = <<>> THEN NoOrder ELSE same[Len(same)]

\* Order.save, lines 196-210: the number given to a new order
new_order_number(rows, day) ==
    LET last       == last_order(rows, day)
        new_number == IF last # NoOrder
                      THEN ParseInt(Suffix(last.order_number)) + 1
                      ELSE 1
    IN  OrderNumber(day, new_number)

\* order has the item rows its.  refresh_from_db() then makes the instance
\* equal to that row.
Order_save(o, its, t) ==
    LET o1   == stamp_status(o, t)
        row1 == write_row(o1)
        o2   == calculate_totals(o1, its)
    IN  [row1 EXCEPT !.subtotal     = Quantize(o2.subtotal),
                     !.delivery_fee = Quantize(o2.delivery_fee),
                     !.tax          = Quantize(o2.tax),
                     !.total        = Quantize(o2.total),
                     !.prepared_at  = o2.prepared_at,
                     !.delivered_at = o2.delivered_at]

\* the guard without the item test
can_change_status_always(its) == TRUE

can_change_status(its) == its # <<>>

\* A new Order instance: the field defaults
NewOrder(deliv) ==
    [status       |-> "open",
     is_delivery  |-> deliv,
     prepared_at  |-> NullTime,
     delivered_at |-> NullTime,
     subtotal     |-> 0,
     delivery_fee |-> 0,
     discount     |-> 0,
     tax          |-> 0,
     total        |-> 0]

NoTarget == "-"                 \* no change_status call is running

\* ------------------------------------------------------------------- Init
\* The state after Order.objects.create(is_delivery=...) at instant 1.
Init ==
    /\ \E deliv \in BOOLEAN :
          /\ db  = Order_save(NewOrder(deliv), <<>>, 1)
          /\ mem = db
    /\ items    = <<>>
    /\ history  = <<>>
    /\ products = [p \in Products |->
                     IF p = "burger"
                     THEN [sale_price |-> 12000, promotional_price |-> 10050]
                     ELSE [sale_price |-> 5000,  promotional_price |-> 0]]
    /\ now  = 1
    /\ target = NoTarget
    /\ result = "True"
    /\ recomp = "save1"
    /\ today  = 1
    /\ orders = <<[order_number |-> new_order_number(<<>>, 1), day |-> 1]>>
    /\ reqs   = [r \in Requests |->
                   [pc |-> "idle", order_number |-> <<>>, attempts |-> 0]]
    /\ prod   = Product_save(NewProduct)
    /\ ledger = <<>>
    /\ chosen = NewProduct.status
    /\ sreqs  = [r \in Requests |-> IdleRequest]
    /\ oreqs  = [r \in Requests |-> IdleOrderRequest]

\* ---------------------------------------------------------------- helpers
\* every sequence over S of length at most n
SeqsUpTo(S, n) == UNION {[1..k -> S] : k \in 0..n}

\* items without its i-th row
RemoveAt(its, i) ==
    [k \in 1..(Len(its) - 1) |-> IF k < i THEN its[k] ELSE its[k + 1]]

\* change_status without its early return
is_noop_never(o, new_status) == FALSE

\* change_status, line 284: the no-op test
is_noop(o, new_status) == new_status = o.status

\* `if user is not None:` instead of `if user:`
actor_supplied_not_none(user) == user # NoUser

\* change_status, line 300: `if user:`
actor_supplied(user) == user \notin {NoUser, ""}

\* Order.clean, lines 344-347 (the delivery address is taken as filled in)
clean_ok(o) == ~(o.discount > o.subtotal + o.delivery_fee)

\* ---------------------------------------------------------------- actions
\* self.save() on the instance o, then refresh_from_db()
SaveInstance(o, its) ==
    /\ now < MaxClock
    /\ now' = now + 1
    /\ db'  = Order_save(o, its, now')
    /\ mem' = db'

\* the totals computed once more, by calculate_totals or by Order.save
CalcAgain == recomp' = IF recomp \in {"calc1", "calc2"} THEN "calc2" ELSE "calc1"
SaveAgain == recomp' = IF recomp \in {"save1", "save2"} THEN "save2" ELSE "save1"

\* Order.change_status up to the history row (lines 284-306)
change_status(new_status, user) ==
    /\ UNCHANGED otherTables
    /\ target = NoTarget
    /\ IF is_noop(mem, new_status)
       THEN /\ result' = "True_noop"
            /\ UNCHANGED <<db, mem, items, history, products, now, target, recomp>>
       ELSE IF new_status \notin VALID_TRANSITIONS[mem.status]
       THEN /\ result' = "InvalidTransition"
            /\ UNCHANGED <<db, mem, items, history, products, now, target, recomp>>
       ELSE IF new_status # "cancelled" /\ ~can_change_status(items)
       THEN /\ result' = "EmptyOrder"
            /\ UNCHANGED <<db, mem, items, history, products, now, target, recomp>>
       ELSE /\ now < MaxClock
            /\ history' = IF actor_supplied(user)
                          THEN Append(history,
                                      [old_status |-> mem.status,
                                       new_status |-> new_status,
                                       changed_by |-> user])
                          ELSE history
            /\ target' = new_status
            /\ result' = "pending"
            /\ UNCHANGED <<db, mem, items, products, now, recomp>>

\* Order.change_status, lines 308-310: self.status = new_status; self.save()
change_status_save ==
    /\ UNCHANGED otherTables
    /\ target # NoTarget
    /\ SaveInstance([mem EXCEPT !.status = target], items)
    /\ target' = NoTarget
    /\ result' = "True"
    /\ SaveAgain
    /\ UNCHANGED <<items, history, products>>

\* Order.add_item: the item row, its customizations, then the totals.
\* OrderItem.objects.create saves the order once before the customizations
\* exist; add_item saves it again after them.
add_item(product, quantity, customizations) ==
    /\ UNCHANGED otherTables
    /\ target = NoTarget
    /\ Len(items) < MaxItems
    /\ LET item0 == [product    |-> product,
                     quantity   |-> quantity,
                     unit_price |-> current_price(products[product]),
                     extras     |-> <<>>]
           item  == [item0 EXCEPT !.extras = customizations]
           o1    == Order_save(calculate_totals(mem, Append(items, item0)),
                               Append(items, item0), now + 1)
       IN  /\ items' = Append(items, item)
           /\ SaveInstance(calculate_totals(o1, items'), items')
    /\ result' = "True"
    /\ recomp' = "save1"
    /\ UNCHANGED <<history, products, target>>

\* OrderItem.save of a stored item whose quantity was edited
OrderItem_save(i, quantity) ==
    /\ UNCHANGED otherTables
    /\ target = NoTarget
    /\ i \in 1..Len(items)
    /\ LET it  == items[i]
           upr == IF it.unit_price = 0
                  THEN current_price(products[it.product])
                  ELSE it.unit_price
       IN  items' = [items EXCEPT ![i] = [it EXCEPT !.quantity   = quantity,
                                                    !.unit_price = upr]]
    /\ SaveInstance(calculate_totals(mem, items'), items')
    /\ result' = "True"
    /\ IF items' = items THEN SaveAgain ELSE recomp' = "save1"
    /\ UNCHANGED <<history, products, target>>

\* item.customizations.create(...) on a stored item: OrderItemCustomization
\* has no save hook, the order is not touched
add_customization(i, extra_price) ==
    /\ UNCHANGED otherTables
    /\ target = NoTarget
    /\ i \in 1..Len(items)
    /\ Len(items[i].extras) < MaxCustoms
    /\ items' = [items EXCEPT ![i].extras = Append(@, extra_price)]
    /\ result' = "True"
    /\ recomp' = "stale"
    /\ UNCHANGED <<db, mem, history, products, now, target>>

\* item.delete() (also the admin inline's delete box): OrderItem has no
\* delete hook, the order is not touched
delete_item(i) ==
    /\ UNCHANGED otherTables
    /\ target = NoTarget
    /\ i \in 1..Len(items)
    /\ items' = RemoveAt(items, i)
    /\ result' = "True"
    /\ recomp' = "stale"
    /\ UNCHANGED <<db, mem, history, products, now, target>>

\* The admin change form: a freshly loaded instance takes the editable
\* fields status and is_delivery from the form, is validated with clean()
\* and saved.
admin_change(status, is_delivery) ==
    /\ UNCHANGED otherTables
    /\ target = NoTarget
    /\ LET o == [db EXCEPT !.status = status, !.is_delivery = is_delivery]
       IN  IF clean_ok(o)
           THEN /\ SaveInstance(o, items)
                /\ result' = "True"
                /\ IF is_delivery = db.is_delivery
                   THEN SaveAgain ELSE recomp' = "save1"
           ELSE /\ result' = "ValidationError"
                /\ UNCHANGED <<db, mem, now, recomp>>
    /\ UNCHANGED <<items, history, products, target>>

\* order.discount = d; order.save()  (with d the current discount: a plain
\* order.save())
save_discount(discount) ==
    /\ UNCHANGED otherTables
    /\ target = NoTarget
    /\ SaveInstance([mem EXCEPT !.discount = discount], items)
    /\ result' = "True"
    /\ IF discount = mem.discount THEN SaveAgain ELSE recomp' = "save1"
    /\ UNCHANGED <<items, history, products, target>>

\* order.calculate_totals() with no save: only the instance changes
recalculate ==
    /\ UNCHANGED otherTables
    /\ target = NoTarget
    /\ mem' = calculate_totals(mem, items)
    /\ result' = "None"
    /\ CalcAgain
    /\ UNCHANGED <<db, items, history, products, now, target>>

\* The product change form of the admin (fieldsets, "Precos"): the two
\* prices are typed in and the product is saved.  An empty promotional
\* price (NULL) is 0 here: current_price tests its truth value.
set_price(product, sale_price, promotional_price) ==
    /\ UNCHANGED otherTables
    /\ target = NoTarget
    /\ products' = [products EXCEPT ![product] =
                       [sale_price        |-> sale_price,
                        promotional_price |-> promotional_price]]
    /\ result' = "None"
    /\ UNCHANGED <<db, mem, items, history, now, target, recomp>>

\* Order.objects.create(...) of one more order, run from its first line to
\* its last with nothing in between: the number is computed from the stored
\* rows and the row is inserted.
create_order ==
    /\ UNCHANGED <<stockVars, oreqs>>
    /\ Len(orders) < MaxOrders
    /\ ParseInt(Suffix(new_order_number(orders, today))) <= MaxNumber
    /\ orders' = Append(orders, [order_number |-> new_order_number(orders, today),
                                 day          |-> today])
    /\ result' = "True"
    /\ UNCHANGED <<db, mem, items, history, products, now, target, recomp,
                   today, reqs>>

\* order.delete() of the i-th stored order (by created_at): Order has no
\* delete hook, the row goes and the other rows stay as they are.
delete_order(i) ==
    /\ UNCHANGED <<stockVars, oreqs>>
    /\ i \in 1..Len(orders)
    /\ orders' = RemoveAt(orders, i)
    /\ result' = "deleted"
    /\ UNCHANGED <<db, mem, items, history, products, now, target, recomp,
                   today, reqs>>

\* a number for every save, stored order or not
order_number_on_save_always(row, rows, day) == new_order_number(rows, day)

\* Order.save, line 196: `if not self.order_number:` guards the generation
order_number_on_save(row, rows, day) ==
    IF row.order_number = <<>>
    THEN new_order_number(rows, day)
    ELSE row.order_number

\* order.save() of the i-th stored order, loaded from its row: created_at
\* (auto_now_add) stays, the number goes through the test of line 196.
resave_order(i) ==
    /\ UNCHANGED <<stockVars, oreqs>>
    /\ i \in 1..Len(orders)
    /\ orders' = [orders EXCEPT
                    ![i].order_number = order_number_on_save(orders[i], orders, today)]
    /\ ParseInt(Suffix(orders'[i].order_number)) <= MaxNumber
    /\ result' = "None"
    /\ UNCHANGED <<db, mem, items, history, products, now, target, recomp,
                   today, reqs>>

\* midnight
next_day ==
    /\ UNCHANGED <<stockVars, oreqs>>
    /\ today < MaxDays
    /\ today' = today + 1
    /\ UNCHANGED <<db, mem, items, history, products, now, target, result,
                   recomp, orders, reqs>>

\* the unique index on order_number
unique_order_number(rows, order_number) ==
    \A i \in 1..Len(rows) : rows[i].order_number # order_number

\* Order.save of request r, lines 196-210: the last order of the day is
\* read and the number computed from it
save_compute(r) ==
    /\ UNCHANGED <<stockVars, oreqs>>
    /\ reqs[r].pc = "idle"
    /\ reqs' = [reqs EXCEPT ![r] =
                   [pc           |-> "computed",
                    order_number |-> new_order_number(orders, today),
                    attempts     |-> reqs[r].attempts + 1]]
    /\ UNCHANGED <<db, mem, items, history, products, now, target, result,
                   recomp, orders, today>>

\* Order.save of request r, line 219: super().save() inserts the row, or
\* the unique index rejects it and the IntegrityError leaves Order.save and
\* Order.objects.create: nothing there catches it
save_insert(r) ==
    /\ UNCHANGED <<stockVars, oreqs>>
    /\ reqs[r].pc = "computed"
    /\ IF unique_order_number(orders, reqs[r].order_number)
       THEN /\ Len(orders) < MaxOrders
            /\ orders' = Append(orders, [order_number |-> reqs[r].order_number,
                                         day          |-> today])
            /\ reqs' = [reqs EXCEPT ![r].pc = "stored"]
            /\ result' = "True"
       ELSE /\ reqs' = [reqs EXCEPT ![r].pc = "IntegrityError"]
            /\ result' = "IntegrityError"
            /\ UNCHANGED orders
    /\ UNCHANGED <<db, mem, items, history, products, now, target, recomp, today>>

\* what the stock operations leave alone
orderTables == <<db, mem, items, history, products, now, target, recomp,
                 numberVars, oreqs>>

\* The product change form of the admin: status, active, manage_stock and
\* stock_quantity are taken from the form and the product is saved.
Product_form_save(status, active, manage_stock, stock_quantity) ==
    /\ prod' = Product_save([status         |-> status,
                             active         |-> active,
                             manage_stock   |-> manage_stock,
                             stock_quantity |-> stock_quantity])
    /\ chosen' = status
    /\ result' = "None"
    /\ UNCHANGED <<ledger, sreqs, orderTables>>

\* reduce_stock handing out what is left when the stock is short
reduce_stock_partial(quantity) ==
    /\ IF prod.manage_stock
       THEN /\ prod' = Product_save([prod EXCEPT !.stock_quantity =
                                        IF @ >= quantity THEN @ - quantity ELSE 0])
            /\ result' = "True"
       ELSE /\ result' = "True"
            /\ UNCHANGED prod
    /\ UNCHANGED <<ledger, chosen, sreqs, orderTables>>

\* Product.reduce_stock(quantity)
reduce_stock(quantity) ==
    /\ IF prod.manage_stock
       THEN IF prod.stock_quantity >= quantity
            THEN /\ prod' = Product_save([prod EXCEPT !.stock_quantity = @ - quantity])
                 /\ result' = "True"
            ELSE /\ result' = "False"
                 /\ UNCHANGED prod
       ELSE /\ result' = "True"
            /\ UNCHANGED prod
    /\ UNCHANGED <<ledger, chosen, sreqs, orderTables>>

\* Product.increase_stock(quantity)
increase_stock(quantity) ==
    /\ prod.stock_quantity + quantity <= MaxStock
    /\ IF prod.manage_stock
       THEN prod' = Product_save([prod EXCEPT !.stock_quantity = @ + quantity])
       ELSE UNCHANGED prod
    /\ result' = "True"
    /\ UNCHANGED <<ledger, chosen, sreqs, orderTables>>

\* StockMovement.objects.create(product=..., movement_type=..., quantity=...,
\* previous_quantity=..., new_quantity=...): the row is stored as given (the
\* model has no clean and no save of its own), then the post_save receiver
\* runs.
StockMovement_create(movement_type, quantity) ==
    /\ Len(ledger) < MaxMovements
    /\ LET row == movement_row(prod, movement_type, quantity)
       IN  /\ ledger' = Append(ledger, row)
           /\ prod' = update_product_stock_from_movement(prod, row)
    /\ result' = "None"
    /\ UNCHANGED <<chosen, sreqs, orderTables>>

\* the quantity column update_stock writes to the ledger, as the target
update_stock_quantity_target(quantity, previous) == quantity

\* admin.update_stock, line 109: quantity=quantity - previous
update_stock_quantity(quantity, previous) == quantity - previous

\* admin action update_stock with the product selected: the quantity is
\* written to the product and saved, then the movement is created and its
\* post_save receiver writes the product once more.
update_stock(quantity) ==
    /\ IF prod.manage_stock
       THEN /\ Len(ledger) < MaxMovements
            /\ LET previous == prod.stock_quantity
                   product  == Product_save([prod EXCEPT !.stock_quantity = quantity])
                   row      == [movement_type     |-> "adjustment",
                                quantity          |-> update_stock_quantity(quantity, previous),
                                previous_quantity |-> previous,
                                new_quantity      |-> quantity]
               IN  /\ ledger' = Append(ledger, row)
                   /\ prod' = update_product_stock_from_movement(product, row)
       ELSE UNCHANGED <<prod, ledger>>
    /\ result' = "None"
    /\ UNCHANGED <<chosen, sreqs, orderTables>>

\* admin action activate_products with the product selected:
\* queryset.update(active=True, status='active') writes the two columns
\* with no Product.save and no signal
activate_products ==
    /\ prod' = [prod EXCEPT !.active = TRUE, !.status = "active"]
    /\ chosen' = "active"
    /\ result' = "None"
    /\ UNCHANGED <<ledger, sreqs, orderTables>>

\* Request r loads the product: Product.objects.get(...), or the queryset
\* of the admin action.
stock_load(r) ==
    /\ sreqs[r].pc = "idle"
    /\ sreqs' = [sreqs EXCEPT ![r] = [IdleRequest EXCEPT !.pc = "loaded",
                                                         !.product = prod]]
    /\ UNCHANGED <<prod, ledger, chosen, result, orderTables>>

\* Request r runs reduce_stock(quantity) on the instance it loaded; the
\* save writes every column of the instance.
stock_reduce(r, quantity) ==
    /\ sreqs[r].pc = "loaded"
    /\ LET product == sreqs[r].product
       IN  IF product.manage_stock
           THEN IF product.stock_quantity >= quantity
                THEN /\ prod' = Product_save([product EXCEPT !.stock_quantity = @ - quantity])
                     /\ sreqs' = [sreqs EXCEPT ![r].pc = "done",
                                               ![r].product = prod',
                                               ![r].delta = -quantity,
                                               ![r].returned = "True"]
                ELSE /\ sreqs' = [sreqs EXCEPT ![r].pc = "done",
                                               ![r].returned = "False"]
                     /\ UNCHANGED prod
           ELSE /\ sreqs' = [sreqs EXCEPT ![r].pc = "done", ![r].returned = "True"]
                /\ UNCHANGED prod
    /\ UNCHANGED <<ledger, chosen, result, orderTables>>

\* Request r runs increase_stock(quantity) on the instance it loaded.
stock_increase(r, quantity) ==
    /\ sreqs[r].pc = "loaded"
    /\ LET product == sreqs[r].product
       IN  IF product.manage_stock
           THEN /\ prod' = Product_save([product EXCEPT !.stock_quantity = @ + quantity])
                /\ sreqs' = [sreqs EXCEPT ![r].pc = "done",
                                          ![r].product = prod',
                                          ![r].delta = quantity,
                                          ![r].returned = "True"]
           ELSE /\ sreqs' = [sreqs EXCEPT ![r].pc = "done", ![r].returned = "True"]
                /\ UNCHANGED prod
    /\ UNCHANGED <<ledger, chosen, result, orderTables>>

\* Request r, update_stock lines 101-103: the quantity is written to the
\* instance and the product saved, before any movement exists.
stock_update_apply(r, quantity) ==
    /\ sreqs[r].pc = "loaded"
    /\ sreqs[r].product.manage_stock
    /\ LET product  == sreqs[r].product
           previous == product.stock_quantity
       IN  /\ prod' = Product_save([product EXCEPT !.stock_quantity = quantity])
           /\ sreqs' = [sreqs EXCEPT
                          ![r].pc = "applied",
                          ![r].product = prod',
                          ![r].row = [movement_type     |-> "adjustment",
                                      quantity          |-> update_stock_quantity(quantity, previous),
                                      previous_quantity |-> previous,
                                      new_quantity      |-> quantity]]
    /\ UNCHANGED <<ledger, chosen, result, orderTables>>

\* Request r fills in a movement for the instance it loaded:
\* StockMovement(product=product, movement_type=..., quantity=..., ...)
stock_movement(r, movement_type, quantity) ==
    /\ sreqs[r].pc = "loaded"
    /\ sreqs' = [sreqs EXCEPT
                   ![r].pc = "applied",
                   ![r].row = movement_row(sreqs[r].product, movement_type, quantity)]
    /\ UNCHANGED <<prod, ledger, chosen, result, orderTables>>

\* Request r, StockMovement.objects.create up to the INSERT: the row is
\* stored (each statement commits by itself), the receiver has not run yet.
stock_insert(r) ==
    /\ sreqs[r].pc = "applied"
    /\ Len(ledger) < MaxMovements
    /\ ledger' = Append(ledger, sreqs[r].row)
    /\ sreqs' = [sreqs EXCEPT ![r].pc = "inserted"]
    /\ UNCHANGED <<prod, chosen, result, orderTables>>

\* Request r, the post_save receiver: instance.product, the instance the
\* request loaded, takes new_quantity and is saved.
stock_signal(r) ==
    /\ sreqs[r].pc = "inserted"
    /\ prod' = update_product_stock_from_movement(sreqs[r].product, sreqs[r].row)
    /\ sreqs' = [sreqs EXCEPT ![r].pc = "done",
                              ![r].product = prod',
                              ![r].delta = sreqs[r].row.quantity,
                              ![r].returned = "None"]
    /\ UNCHANGED <<ledger, chosen, result, orderTables>>

\* Request r ends with an exception between two of its statements (the
\* INSERT or the second save raises, the worker is killed): nothing in
\* update_stock or in the receiver opens a transaction or undoes a write.
stock_fail(r) ==
    /\ sreqs[r].pc \in {"applied", "inserted"}
    /\ sreqs' = [sreqs EXCEPT ![r].pc = "failed"]
    /\ UNCHANGED <<prod, ledger, chosen, result, orderTables>>

\* The response of request r has been sent; the next request may come.
stock_return(r) ==
    /\ sreqs[r].pc \in {"done", "failed"}
    /\ sreqs' = [sreqs EXCEPT ![r] = IdleRequest]
    /\ UNCHANGED <<prod, ledger, chosen, result, orderTables>>

\* what the statements of a request on the order leave alone
requestFrame == <<mem, products, target, result, recomp, numberVars, stockVars>>

\* the actor of the status changes the requests make
Operator == "ana"

\* Request r loads the order: Order.objects.get(...)
order_load(r) ==
    /\ oreqs[r].pc = "idle"
    /\ oreqs' = [oreqs EXCEPT ![r].pc = "loaded", ![r].order = db]
    /\ UNCHANGED <<db, items, history, now, requestFrame>>

\* Request r, OrderItem.save lines 425-428: the price is filled in and the
\* item row inserted, for the order instance the request loaded.
item_insert(r, product, quantity) ==
    /\ oreqs[r].pc = "loaded"
    /\ items' = Append(items, [product    |-> product,
                               quantity   |-> quantity,
                               unit_price |-> current_price(products[product]),
                               extras     |-> <<>>])
    /\ oreqs' = [oreqs EXCEPT ![r].pc = "inserted", ![r].op = "item"]
    /\ UNCHANGED <<db, history, now, requestFrame>>

\* Request r, OrderItem.save line 429: self.order.calculate_totals() reads
\* the item rows stored at this moment.
item_calc(r) ==
    /\ oreqs[r].pc = "inserted"
    /\ oreqs' = [oreqs EXCEPT ![r].pc = "saving",
                              ![r].order = calculate_totals(@, items)]
    /\ UNCHANGED <<db, items, history, now, requestFrame>>

\* Request r, change_status lines 284-308 on the instance it loaded: the
\* tests, the history row, the assignment of the status.
status_change(r, new_status) ==
    /\ oreqs[r].pc = "loaded"
    /\ LET order == oreqs[r].order
       IN  IF is_noop(order, new_status)
           THEN /\ oreqs' = [oreqs EXCEPT ![r].pc = "done", ![r].op = "status",
                                          ![r].returned = "True"]
                /\ UNCHANGED history
           ELSE IF new_status \notin VALID_TRANSITIONS[order.status]
           THEN /\ oreqs' = [oreqs EXCEPT ![r].pc = "done", ![r].op = "status",
                                          ![r].returned = "InvalidTransition"]
                /\ UNCHANGED history
           ELSE IF new_status # "cancelled" /\ ~can_change_status(items)
           THEN /\ oreqs' = [oreqs EXCEPT ![r].pc = "done", ![r].op = "status",
                                          ![r].returned = "EmptyOrder"]
                /\ UNCHANGED history
           ELSE /\ history' = IF actor_supplied(Operator)
                              THEN Append(history,
                                          [old_status |-> order.status,
                                           new_status |-> new_status,
                                           changed_by |-> Operator])
                              ELSE history
                /\ oreqs' = [oreqs EXCEPT ![r].pc = "saving", ![r].op = "status",
                                          ![r].order.status = new_status]
    /\ UNCHANGED <<db, items, now, requestFrame>>

\* Request r, Order.save lines 212-219: the timestamps, then super().save()
\* writes every column of the instance.
order_write(r) ==
    /\ oreqs[r].pc = "saving"
    /\ now < MaxClock
    /\ now' = now + 1
    /\ LET o1 == stamp_status(oreqs[r].order, now')
       IN  /\ db' = write_row(o1)
           /\ oreqs' = [oreqs EXCEPT ![r].pc = "written", ![r].order = o1]
    /\ UNCHANGED <<items, history, requestFrame>>

\* Request r, Order.save line 224: calculate_totals() reads the item rows.
order_recalc(r) ==
    /\ oreqs[r].pc = "written"
    /\ oreqs' = [oreqs EXCEPT ![r].pc = "recalculated",
                              ![r].order = calculate_totals(@, items)]
    /\ UNCHANGED <<db, items, history, now, requestFrame>>

\* Request r, Order.save lines 226-235: the UPDATE of the totals and the
\* timestamps, then refresh_from_db().
order_update(r) ==
    /\ oreqs[r].pc = "recalculated"
    /\ LET o2 == oreqs[r].order
       IN  db' = [db EXCEPT !.subtotal     = Quantize(o2.subtotal),
                            !.delivery_fee = Quantize(o2.delivery_fee),
                            !.tax          = Quantize(o2.tax),
                            !.total        = Quantize(o2.total),
                            !.prepared_at  = o2.prepared_at,
                            !.delivered_at = o2.delivered_at]
    /\ oreqs' = [oreqs EXCEPT ![r].pc = "done", ![r].order = db',
                              ![r].returned = "True"]
    /\ UNCHANGED <<items, history, now, requestFrame>>

Next ==
    \/ \E s \in STATUS_CHOICES, u \in Users : change_status(s, u)
    \/ change_status_save
    \/ \E p \in Products, q \in Quantities, c \in SeqsUpTo(Extras, MaxCustoms) :
          add_item(p, q, c)
    \/ \E i \in 1..MaxItems, q \in Quantities : OrderItem_save(i, q)
    \/ \E i \in 1..MaxItems, e \in Extras : add_customization(i, e)
    \/ \E i \in 1..MaxItems : delete_item(i)
    \/ \E s \in STATUS_CHOICES, b \in BOOLEAN : admin_change(s, b)
    \/ \E d \in Discounts : save_discount(d)
    \/ \E p \in Products, sp \in SalePrices, pp \in PromoPrices :
          set_price(p, sp, pp)
    \/ create_order
    \/ next_day
    \/ \E r \in Requests : save_compute(r)
    \/ \E r \in Requests : save_insert(r)
    \/ \E st \in PRODUCT_STATUS, a, m \in BOOLEAN, n \in StockTargets :
          Product_form_save(st, a, m, n)
    \/ \E q \in StockQuantities : reduce_stock(q)
    \/ \E q \in StockQuantities : increase_stock(q)
    \/ \E mv \in MovementInputs : StockMovement_create(mv[1], mv[2])
    \/ \E n \in StockTargets : update_stock(n)
    \/ activate_products
    \/ \E r \in Requests : stock_load(r)
    \/ \E r \in Requests, q \in StockQuantities : stock_reduce(r, q)
    \/ \E r \in Requests, q \in StockQuantities : stock_increase(r, q)
    \/ \E r \in Requests, n \in StockTargets : stock_update_apply(r, n)
    \/ \E r \in Requests, mv \in MovementInputs : stock_movement(r, mv[1], mv[2])
    \/ \E r \in Requests : stock_insert(r)
    \/ \E r \in Requests : stock_signal(r)
    \/ \E r \in Requests : stock_fail(r)
    \/ \E r \in Requests : stock_return(r)
    \/ \E i \in 1..MaxOrders : delete_order(i)
    \/ \E i \in 1..MaxOrders : resave_order(i)
    \/ \E r \in Requests : order_load(r)
    \/ \E r \in Requests, p \in Products, q \in Quantities : item_insert(r, p, q)
    \/ \E r \in Requests : item_calc(r)
    \/ \E r \in Requests, s \in STATUS_CHOICES : status_change(r, s)
    \/ \E r \in Requests : order_write(r)
    \/ \E r \in Requests : order_recalc(r)
    \/ \E r \in Requests : order_update(r)
    \/ recalculate

Spec == Init /\ [][Next]_vars

\* The status workflow: every status operation with every argument, and the
\* item and order saves that go through Order.save, on items of one kind.
\* The amounts play no part in it: is_delivery and the discount stay as
\* created.
NextStatus ==
    \/ \E s \in STATUS_CHOICES, u \in Users : change_status(s, u)
    \/ change_status_save
    \/ \E p \in Products : add_item(p, 1, <<>>)
    \/ \E i \in 1..MaxItems, q \in Quantities : OrderItem_save(i, q)
    \/ \E i \in 1..MaxItems : delete_item(i)
    \/ \E s \in STATUS_CHOICES : admin_change(s, db.is_delivery)

SpecStatus == Init /\ [][NextStatus]_vars

\* The amounts: every item, customization, discount and delivery operation
\* with every argument, on an order that stays open.
NextTotals ==
    \/ \E p \in Products, q \in Quantities, c \in SeqsUpTo(Extras, MaxCustoms) :
          add_item(p, q, c)
    \/ \E i \in 1..MaxItems, q \in Quantities : OrderItem_save(i, q)
    \/ \E i \in 1..MaxItems, e \in Extras : add_customization(i, e)
    \/ \E i \in 1..MaxItems : delete_item(i)
    \/ \E b \in BOOLEAN : admin_change(db.status, b)
    \/ \E d \in Discounts : save_discount(d)
    \/ recalculate

SpecTotals == Init /\ [][NextTotals]_vars

\* The prices: the prices of one product change while items of it are added
\* to the order and the items and the order are saved.
PricedProduct == "soda"

NextPrices ==
    \/ \E sp \in SalePrices, pp \in PromoPrices :
          set_price(PricedProduct, sp, pp)
    \/ \E q \in Quantities, c \in SeqsUpTo(Extras, MaxCustoms) :
          add_item(PricedProduct, q, c)
    \/ \E i \in 1..MaxItems, q \in Quantities : OrderItem_save(i, q)
    \/ save_discount(mem.discount)

SpecPrices == Init /\ [][NextPrices]_vars

\* The numbering: orders are created one after another, over several days.
NextNumbering ==
    \/ create_order
    \/ next_day

SpecNumbering == Init /\ [][NextNumbering]_vars

\* Concurrent creation: two requests go through Order.save step by step,
\* in any interleaving, among orders created one at a time.
NextConcurrentCreate ==
    \/ \E r \in Requests : save_compute(r)
    \/ \E r \in Requests : save_insert(r)
    \/ create_order
    \/ next_day

SpecConcurrentCreate == Init /\ [][NextConcurrentCreate]_vars

\* The ledger: movements are recorded for the product, by update_stock and
\* by StockMovement rows created directly, while stock management is
\* switched on and off in the product form.
NextLedger ==
    \/ \E mv \in MovementInputs : StockMovement_create(mv[1], mv[2])
    \/ \E n \in StockTargets : update_stock(n)
    \/ \E m \in BOOLEAN :
          Product_form_save(prod.status, prod.active, m, prod.stock_quantity)

SpecLedger == Init /\ [][NextLedger]_vars

\* The stock: every operation that changes the quantity of the product,
\* recorded in the ledger or not.
NextStock ==
    \/ \E q \in StockQuantities : reduce_stock(q)
    \/ \E q \in StockQuantities : increase_stock(q)
    \/ \E mv \in MovementInputs : StockMovement_create(mv[1], mv[2])
    \/ \E n \in StockTargets : update_stock(n)

SpecStock == Init /\ [][NextStock]_vars

\* The product: the stock operations together with the product form and
\* the bulk activation.
NextProduct ==
    \/ \E st \in PRODUCT_STATUS, a, m \in BOOLEAN, n \in StockTargets :
          Product_form_save(st, a, m, n)
    \/ \E q \in StockQuantities : reduce_stock(q)
    \/ \E q \in StockQuantities : increase_stock(q)
    \/ \E mv \in MovementInputs : StockMovement_create(mv[1], mv[2])
    \/ \E n \in StockTargets : update_stock(n)
    \/ activate_products

SpecProduct == Init /\ [][NextProduct]_vars

\* The status of the product: the operator picks a status in the form
\* while the stock runs out and is refilled.
NextRecovery ==
    \/ \E st \in PRODUCT_STATUS :
          Product_form_save(st, prod.active, prod.manage_stock, prod.stock_quantity)
    \/ \E q \in StockQuantities : reduce_stock(q)
    \/ \E q \in StockQuantities : increase_stock(q)
    \/ \E mv \in MovementInputs : StockMovement_create(mv[1], mv[2])

SpecRecovery == Init /\ [][NextRecovery]_vars

\* The availability: every product the form can store, with stock taken
\* from it and added to it.
NextAvailability ==
    \/ \E st \in PRODUCT_STATUS, a, m \in BOOLEAN, n \in StockTargets :
          Product_form_save(st, a, m, n)
    \/ \E q \in StockQuantities : reduce_stock(q)
    \/ \E q \in StockQuantities : increase_stock(q)

SpecAvailability == Init /\ [][NextAvailability]_vars

\* One request at a time changes the stock through the ledger, statement
\* by statement, and may fail between two statements.
OneRequest == "r1"

NextAtomicity ==
    \/ stock_load(OneRequest)
    \/ \E n \in StockTargets : stock_update_apply(OneRequest, n)
    \/ \E mv \in MovementInputs : stock_movement(OneRequest, mv[1], mv[2])
    \/ stock_insert(OneRequest)
    \/ stock_signal(OneRequest)
    \/ stock_fail(OneRequest)
    \/ stock_return(OneRequest)

SpecAtomicity == Init /\ [][NextAtomicity]_vars

\* Two requests change the stock of the product, each once, their
\* statements interleaved in any order.
NextConcurrentStock ==
    \/ \E r \in Requests : stock_load(r)
    \/ \E r \in Requests, q \in StockQuantities : stock_reduce(r, q)
    \/ \E r \in Requests, q \in StockQuantities : stock_increase(r, q)
    \/ \E r \in Requests, mv \in MovementInputs : stock_movement(r, mv[1], mv[2])
    \/ \E r \in Requests : stock_insert(r)
    \/ \E r \in Requests : stock_signal(r)

SpecConcurrentStock == Init /\ [][NextConcurrentStock]_vars

\* Two requests each save one line item of the order, their statements
\* interleaved in any order.
NextConcurrentItems ==
    \/ \E r \in Requests : order_load(r)
    \/ \E r \in Requests, p \in Products, q \in Quantities : item_insert(r, p, q)
    \/ \E r \in Requests : item_calc(r)
    \/ \E r \in Requests : order_write(r)
    \/ \E r \in Requests : order_recalc(r)
    \/ \E r \in Requests : order_update(r)

SpecConcurrentItems == Init /\ [][NextConcurrentItems]_vars

\* Two requests each save a line item or change the status of the order.
NextConcurrentOrder ==
    \/ NextConcurrentItems
    \/ \E r \in Requests, s \in STATUS_CHOICES : status_change(r, s)

SpecConcurrentOrder == Init /\ [][NextConcurrentOrder]_vars

\* The status of an order that is changed through change_status alone,
\* every call naming its actor, once it has items.
NextHistory ==
    \/ \E s \in STATUS_CHOICES : change_status(s, Operator)
    \/ change_status_save
    \/ \E p \in Products, q \in Quantities : add_item(p, q, <<>>)

SpecHistory == Init /\ [][NextHistory]_vars

\* One day: orders are created, saved again and deleted, one operation
\* after another.
NextDeletion ==
    \/ create_order
    \/ \E i \in 1..MaxOrders : delete_order(i)
    \/ \E i \in 1..MaxOrders : resave_order(i)

SpecDeletion == Init /\ [][NextDeletion]_vars

\* A stock-managed product whose units are taken and returned a few at a
\* time, one call after another, while the operator edits its status and
\* retypes its quantity.
NextReduce ==
    \/ \E q \in Units : reduce_stock(q)
    \/ \E q \in Units : increase_stock(q)
    \/ \E st \in PRODUCT_STATUS, n \in StockTargets :
          Product_form_save(st, prod.active, TRUE, n)

SpecReduce == Init /\ [][NextReduce]_vars

\* ================================================================= claims
\* The transition table as the specification states it.
TransitionTable ==
    {<<"open", "preparing">>, <<"open", "cancelled">>,
     <<"preparing", "ready">>, <<"preparing", "cancelled">>,
     <<"ready", "out_for_delivery">>, <<"ready", "delivered">>,
     <<"out_for_delivery", "delivered">>}

TerminalStatuses == {"delivered", "cancelled"}

Totals(o) == <<o.subtotal, o.delivery_fee, o.tax, o.total>>

Last(s) == s[Len(s)]

\* C1 - Transition legality.  A change_status call to a different status
\* that is not a pair of the transition table raises the invalid-transition
\* error and leaves the stored status; a call for a pair of the table on an
\* order with at least one item goes on to save, and the save stores the
\* requested status and returns True.
C1_TransitionLegality ==
    [][ /\ \A s \in STATUS_CHOICES, u \in Users :
              (change_status(s, u) /\ s # db.status) =>
                 IF <<db.status, s>> \notin TransitionTable
                 THEN /\ result' = "InvalidTransition"
                      /\ target' = NoTarget
                      /\ db' = db
                      /\ mem'.status = db.status
                 ELSE (items # <<>>) => (result' = "pending" /\ target' = s)
        /\ change_status_save =>
              /\ result' = "True"
              /\ target' = NoTarget
              /\ db'.status = target
              /\ <<db.status, db'.status>> \in TransitionTable
      ]_vars

\* C1 witness: an order that went open -> preparing -> ready through
\* change_status, on which an illegal transition was then rejected.
C1_Witness ==
    /\ result = "InvalidTransition"
    /\ db.status = "ready"
    /\ items # <<>>
    /\ Len(history) = 2

\* C2 - Terminal states are permanent under change_status, add_item and
\* line-item saves: a step of one of these operations on an order whose
\* stored status is delivered or cancelled leaves the stored status.
C2_TerminalPermanent ==
    [][ ( /\ db.status \in TerminalStatuses
          /\ \/ \E s \in STATUS_CHOICES, u \in Users : change_status(s, u)
             \/ change_status_save
             \/ \E p \in Products, q \in Quantities,
                   c \in SeqsUpTo(Extras, MaxCustoms) : add_item(p, q, c)
             \/ \E i \in 1..MaxItems, q \in Quantities : OrderItem_save(i, q) )
        => db'.status = db.status
      ]_vars

\* C2 witness: an order cancelled through change_status on which a later
\* change_status call was made and refused.
C2_Witness ==
    /\ db.status = "cancelled"
    /\ history # <<>>
    /\ Last(history).new_status = "cancelled"
    /\ items # <<>>
    /\ result = "InvalidTransition"

\* C3 - Every change of the stored status, by whatever operation, is a pair
\* of the transition table (direct assignment followed by Order.save is
\* rejected).
C3_OnlyTableChanges ==
    [][ db'.status # db.status => <<db.status, db'.status>> \in TransitionTable
      ]_vars

\* C4 (as claimed) - On an order with no items every change_status call to
\* a different status other than cancelled, allowed from the current status
\* or not, raises the empty-order error and leaves the status; a call to
\* cancelled is never blocked by the item count.
C4_EmptyGuardAnyTarget ==
    [][ \A s \in STATUS_CHOICES, u \in Users :
           (change_status(s, u) /\ s # db.status) =>
              /\ (items = <<>> /\ s # "cancelled") =>
                    (result' = "EmptyOrder" /\ db' = db)
              /\ (s = "cancelled") => result' # "EmptyOrder"
      ]_vars

\* C4 (amended) - On an order with no items every change_status call to a
\* status other than cancelled that the transition table allows from the
\* current status raises the empty-order error, distinct from the
\* invalid-transition error that a target not allowed from the current
\* status raises whatever the item count, and leaves the status; a call to
\* cancelled is never blocked by the item count: on an empty open or
\* preparing order it goes on to save.
C4_EmptyGuard ==
    [][ \A s \in STATUS_CHOICES, u \in Users :
           (change_status(s, u) /\ s # db.status) =>
              /\ (items = <<>> /\ s # "cancelled"
                    /\ <<db.status, s>> \in TransitionTable) =>
                    /\ result' = "EmptyOrder"
                    /\ target' = NoTarget
                    /\ db' = db
                    /\ mem'.status = db.status
              /\ (<<db.status, s>> \notin TransitionTable) =>
                    (result' = "InvalidTransition" /\ db' = db)
              /\ (s = "cancelled") => result' # "EmptyOrder"
              /\ (s = "cancelled" /\ db.status \in {"open", "preparing"}) =>
                    (result' = "pending" /\ target' = "cancelled")
      ]_vars

\* C4 witness: an order in preparation whose only item was deleted and whose
\* move to ready was refused with the empty-order error.
C4_Witness ==
    /\ result = "EmptyOrder"
    /\ items = <<>>
    /\ db.status = "preparing"
    /\ db.subtotal # 0

\* C5 - change_status to the current status returns True through the early
\* return and changes nothing: the stored row (status, timestamps, totals),
\* the instance, the items and the history stay as they are, for every
\* status, item count and actor.
C5_NoOp ==
    [][ \A s \in STATUS_CHOICES, u \in Users :
           (change_status(s, u) /\ s = db.status) =>
              /\ result' = "True_noop"
              /\ target' = NoTarget
              /\ db' = db
              /\ mem' = mem
              /\ items' = items
              /\ history' = history
      ]_vars

\* C5 witness: the no-op call made on a delivered order.
C5_Witness ==
    /\ result = "True_noop"
    /\ db.status = "delivered"
    /\ db.delivered_at # NullTime

\* C6 - Status history.  A change_status call that passes validation with
\* an actor (neither None nor the empty string) appends exactly one entry
\* (status before the call, requested status, actor) while the stored
\* status is still the old one; the save that follows stores the status and
\* appends nothing; failing calls, no-op calls, calls without an actor and
\* every other operation append nothing.
C6_HistoryLogging ==
    [][ /\ \A s \in STATUS_CHOICES, u \in Users :
              change_status(s, u) =>
                 IF result' = "pending" /\ u \notin {NoUser, ""}
                 THEN /\ history' = Append(history,
                                           [old_status |-> db.status,
                                            new_status |-> s,
                                            changed_by |-> u])
                      /\ db'.status = db.status
                 ELSE history' = history
        /\ change_status_save =>
              (history' = history /\ db'.status = target)
        /\ (history' # history) =>
              \E s \in STATUS_CHOICES, u \in Users : change_status(s, u)
      ]_vars

\* C6 witness: the entry of a running call is stored, the status is not yet.
C6_Witness ==
    /\ target # NoTarget
    /\ Len(history) = 2
    /\ Last(history).new_status = target
    /\ Last(history).old_status = db.status
    /\ db.status # target

\* C7 - prepared_at and delivered_at are set once: a timestamp that is set
\* is never changed; one gets set only by the step that stores its status,
\* to the time of that step; and a stored status preparing (delivered)
\* always comes with prepared_at (delivered_at) set.
C7_TimestampsSetOnce ==
    [][ /\ (db.prepared_at # NullTime) => db'.prepared_at = db.prepared_at
        /\ (db.delivered_at # NullTime) => db'.delivered_at = db.delivered_at
        /\ (db.prepared_at = NullTime /\ db'.prepared_at # NullTime) =>
              (db'.status = "preparing" /\ db'.prepared_at = now')
        /\ (db.delivered_at = NullTime /\ db'.delivered_at # NullTime) =>
              (db'.status = "delivered" /\ db'.delivered_at = now')
        /\ (db'.status = "preparing") => db'.prepared_at # NullTime
        /\ (db'.status = "delivered") => db'.delivered_at # NullTime
      ]_vars

\* C7 witness: both timestamps set, and the order saved again afterwards.
C7_Witness ==
    /\ db.prepared_at # NullTime
    /\ db.delivered_at > db.prepared_at
    /\ now > db.delivered_at
    /\ items # <<>>

\* C8 - The stored financial fields satisfy tax = 10% of (subtotal +
\* delivery_fee) at 2 decimal places and total = subtotal + delivery_fee +
\* tax - discount.
C8_StoredTotalsConsistent ==
    /\ db.tax = Quantize(((db.subtotal + db.delivery_fee) * TAX_RATE_PCT) \div 100)
    /\ db.total = db.subtotal + db.delivery_fee + db.tax - db.discount

\* C9 - After any sequence of line-item operations the stored subtotal is
\* the sum of the subtotals of the items the order has, and the stored tax
\* and total are the ones Order.save derives from it.
C9_TotalsMatchItems ==
    (target = NoTarget) =>
       /\ db.subtotal = items_total(items)
       /\ Totals(db) = Totals(Order_save(db, items, now))

\* C10 - Totals recomputation is idempotent: calculate_totals run again on
\* unchanged inputs leaves subtotal, delivery_fee, tax and total of the
\* instance as the previous run left them, and Order.save run again on
\* unchanged inputs leaves the stored ones (and the instance's) as the
\* previous save left them.
C10_Idempotent ==
    [][ /\ (recalculate /\ recomp \in {"calc1", "calc2"}) =>
              Totals(mem') = Totals(mem)
        /\ (recomp \in {"save1", "save2"} /\ recomp' = "save2") =>
              (Totals(db') = Totals(db) /\ Totals(mem') = Totals(db))
      ]_vars

\* C10 witness: a delivery order with an item whose tax has a third decimal
\* digit, on which calculate_totals has run twice in a row.
C10_Witness ==
    /\ recomp = "calc2"
    /\ mem.is_delivery
    /\ items # <<>>
    /\ mem.delivery_fee = DEFAULT_DELIVERY_FEE
    /\ mem.tax % DECIMAL_PLACES_UNIT # 0

\* C10, the same for Order.save run twice in a row.
C10_WitnessSave ==
    /\ recomp = "save2"
    /\ db.is_delivery
    /\ items # <<>>

\* C11 - Delivery fee defaulting.  A recomputation (calculate_totals on the
\* instance, or the one inside Order.save) sets delivery_fee to 5.00 exactly
\* when is_delivery is true and the fee is zero, and leaves it unchanged
\* otherwise: a non-zero fee is preserved by every later step, also once
\* is_delivery is switched off, and a fee changes only from zero to 5.00 on
\* a delivery order.
C11_FeeDefaulting ==
    [][ /\ recalculate =>
              mem'.delivery_fee = IF mem.is_delivery /\ mem.delivery_fee = 0
                                  THEN DEFAULT_DELIVERY_FEE
                                  ELSE mem.delivery_fee
        /\ (now' # now) =>
              db'.delivery_fee = IF db'.is_delivery /\ db.delivery_fee = 0
                                 THEN DEFAULT_DELIVERY_FEE
                                 ELSE db.delivery_fee
        /\ (db.delivery_fee # 0) => db'.delivery_fee = db.delivery_fee
        /\ (mem.delivery_fee # 0) => mem'.delivery_fee = mem.delivery_fee
        /\ (db'.delivery_fee # db.delivery_fee) =>
              (db.delivery_fee = 0 /\ db'.is_delivery
                 /\ db'.delivery_fee = DEFAULT_DELIVERY_FEE)
      ]_vars

\* C11 witness: an order created without delivery (fee zero), switched to
\* delivery (fee 5.00), switched back and saved again: the fee is kept.
C11_Witness ==
    /\ ~db.is_delivery
    /\ db.delivery_fee = DEFAULT_DELIVERY_FEE
    /\ items # <<>>
    /\ recomp = "save2"

\* the subtotal of a line item as the specification states it
StatedItemSubtotal(it) ==
    it.unit_price * it.quantity + SumSeq(it.extras) * it.quantity

RECURSIVE StatedOrderSubtotal(_)
StatedOrderSubtotal(its) ==
    IF its = <<>> THEN 0
    ELSE StatedItemSubtotal(Head(its)) + StatedOrderSubtotal(Tail(its))

\* C12 - A line item's subtotal is unit_price * quantity + (sum of its
\* customizations' extra prices) * quantity, and the subtotal every Order
\* save stores is the sum of the items' subtotals, zero for an empty order.
\* In particular add_item on an empty delivery order with discount 0, of
\* quantity 2 of a product priced 20.00 with one customization of 1.00,
\* stores subtotal 42.00, delivery_fee 5.00, tax 4.70 and total 51.70.
C12_Subtotals ==
    [][ /\ (now' # now) => db'.subtotal = StatedOrderSubtotal(items')
        /\ (now' # now /\ items' = <<>>) => db'.subtotal = 0
        /\ \A p \in Products, q \in Quantities,
              c \in SeqsUpTo(Extras, MaxCustoms) :
              add_item(p, q, c) =>
                 /\ Last(items').unit_price = current_price(products[p])
                 /\ item_subtotal(Last(items')) =
                       current_price(products[p]) * q + SumSeq(c) * q
                 /\ ( /\ items = <<>>
                      /\ mem.is_delivery
                      /\ mem.discount = 0
                      /\ current_price(products[p]) = 20000
                      /\ q = 2
                      /\ c = <<1000>> ) =>
                       /\ db'.subtotal     = 42000
                       /\ db'.delivery_fee = 5000
                       /\ db'.tax          = 4700
                       /\ db'.total        = 51700
      ]_vars

\* C12 witness: the order of the example as add_item leaves it.
C12_Witness ==
    /\ db.is_delivery
    /\ db.discount = 0
    /\ Len(items) = 1
    /\ items[1].unit_price = 20000
    /\ items[1].quantity = 2
    /\ items[1].extras = <<1000>>
    /\ Totals(db) = <<42000, 5000, 4700, 51700>>
    /\ mem = db

\* C13 - In every stored state of an order the discount does not exceed
\* subtotal + delivery_fee (an operation that would store more is rejected
\* with a validation error).
C13_DiscountBounded ==
    db.discount <= db.subtotal + db.delivery_fee

\* C14 - A line item's unit price is the product's current price at the
\* time the item is added and never changes afterwards: whatever the
\* product's prices become, no save of the item or of the order changes the
\* unit_price of a stored item, for every unit price including zero, and a
\* save that leaves the item's quantity leaves the stored subtotal.
C14_UnitPriceImmutable ==
    [][ /\ \A p \in Products, q \in Quantities,
              c \in SeqsUpTo(Extras, MaxCustoms) :
              add_item(p, q, c) =>
                 Last(items').unit_price = current_price(products[p])
        /\ \A i \in 1..Len(items) :
              (i <= Len(items')) => items'[i].unit_price = items[i].unit_price
        /\ ( /\ now' # now
             /\ Len(items') = Len(items)
             /\ \A i \in 1..Len(items) : items'[i].quantity = items[i].quantity
             /\ db.subtotal = items_total(items) ) =>
              db'.subtotal = db.subtotal
      ]_vars

\* the suffix NNN of the k-th order of a day as the specification states it
StatedSuffix(k) == <<k \div 100, (k \div 10) % 10, k % 10>>

\* C15 - Sequential order numbering.  With the orders created one after
\* another, the k-th order created on a day has the number PD-<day>-<k as
\* three digits>: the first order of a day gets 001 and the suffixes of a
\* day run 001, 002, ..., N in creation order with no gap and no duplicate;
\* and each creation gives the new order one more than the suffix of the
\* chronologically last order of the same day.
C15_SequentialNumbers ==
    [][ /\ \A day \in 1..MaxDays :
              LET same == OrdersOfDay(orders', day)
              IN  \A k \in 1..Len(same) :
                     same[k].order_number = <<"PD", day, StatedSuffix(k)>>
        /\ create_order =>
              LET same == OrdersOfDay(orders, today)
                  new  == Last(orders')
              IN  /\ new.day = today
                  /\ IF same = <<>>
                     THEN Suffix(new.order_number) = <<0, 0, 1>>
                     ELSE ParseInt(Suffix(new.order_number)) =
                             ParseInt(Suffix(Last(same).order_number)) + 1
      ]_vars

\* C15 witness: three orders created on a day that began with none, after a
\* day that had its own 001 and 002.
C15_Witness ==
    /\ today = 2
    /\ Len(OrdersOfDay(orders, 1)) = 2
    /\ Len(OrdersOfDay(orders, 2)) = 3
    /\ Last(orders).order_number = <<"PD", 2, <<0, 0, 3>>>>

\* C16 - Concurrent order creation.  No two stored orders share an order
\* number, and a creation whose number was taken in the meantime is retried
\* with a freshly computed number: the uniqueness violation does not reach
\* the caller of a creation that computed its number only once.
C16_ConcurrentCreation ==
    /\ \A i, j \in 1..Len(orders) :
          (orders[i].order_number = orders[j].order_number) => i = j
    /\ \A r \in Requests :
          (reqs[r].pc = "IntegrityError") => reqs[r].attempts >= 2

\* the stock the product was created with
InitialQuantity == Product_save(NewProduct).stock_quantity

\* the sum of the signed quantities of the ledger's entries
RECURSIVE SumQuantities(_)
SumQuantities(rows) ==
    IF rows = <<>> THEN 0 ELSE Head(rows).quantity + SumQuantities(Tail(rows))

\* C17 - Stock ledger consistency.  After any sequence of recorded
\* movements every ledger entry has new_quantity = previous_quantity +
\* quantity, the entry update_stock records for a target is (adjustment,
\* target - previous, previous, target), and the product's stock_quantity
\* is its initial quantity plus the sum of the quantities of all entries.
C17_LedgerConsistent ==
    [][ /\ \A i \in 1..Len(ledger') :
              ledger'[i].new_quantity =
                 ledger'[i].previous_quantity + ledger'[i].quantity
        /\ prod'.stock_quantity = InitialQuantity + SumQuantities(ledger')
        /\ \A n \in StockTargets :
              (update_stock(n) /\ prod.manage_stock) =>
                 /\ ledger' = Append(ledger,
                                     [movement_type     |-> "adjustment",
                                      quantity          |-> n - prod.stock_quantity,
                                      previous_quantity |-> prod.stock_quantity,
                                      new_quantity      |-> n])
                 /\ prod'.stock_quantity = n
      ]_vars

\* C17 witness: three movements recorded, the last an adjustment that
\* lowered a stock an earlier movement had changed.
C17_Witness ==
    /\ Len(ledger) = 3
    /\ ledger[1].movement_type # "adjustment"
    /\ ledger[3].movement_type = "adjustment"
    /\ ledger[3].quantity < 0
    /\ ledger[3].previous_quantity # InitialQuantity
    /\ prod.stock_quantity = ledger[3].new_quantity

\* C18 - The ledger and the product's quantity never disagree: after any
\* sequence of stock-changing operations the product's stock_quantity is
\* the new_quantity of the most recent ledger entry, or the initial
\* quantity while the ledger is empty.
C18_LedgerMatchesStock ==
    prod.manage_stock =>
       IF ledger = <<>>
       THEN prod.stock_quantity = InitialQuantity
       ELSE prod.stock_quantity = Last(ledger).new_quantity

\* C19 - Recording an outbound movement that would make new_quantity
\* negative for a stock-managed product fails with the insufficient-stock
\* error and leaves the product and the ledger as they were; no stored
\* entry of type out has a negative new_quantity.
C19_InsufficientStock ==
    [][ /\ \A mv \in MovementInputs :
              ( /\ StockMovement_create(mv[1], mv[2])
                /\ mv[1] = "out"
                /\ prod.manage_stock
                /\ prod.stock_quantity + mv[2] < 0 ) =>
                 /\ result' = "InsufficientStock"
                 /\ prod' = prod
                 /\ ledger' = ledger
        /\ prod'.manage_stock =>
              \A i \in 1..Len(ledger') :
                 (ledger'[i].movement_type = "out") => ledger'[i].new_quantity >= 0
      ]_vars

\* C20 - In every stored state of a product, manage_stock = true and
\* stock_quantity <= 0 imply status = out_of_stock.
C20_OutOfStockStatus ==
    (prod.manage_stock /\ prod.stock_quantity <= 0) => prod.status = "out_of_stock"

\* a step of an operation that changes the quantity and is no choice of
\* status by an operator
StockOperation ==
    \/ \E q \in StockQuantities : reduce_stock(q)
    \/ \E q \in StockQuantities : increase_stock(q)
    \/ \E mv \in MovementInputs : StockMovement_create(mv[1], mv[2])
    \/ \E n \in StockTargets : update_stock(n)

\* C21 - Stock recovery.  When a stock operation raises the quantity of a
\* stock-managed product from zero or below to above zero, the status
\* becomes active exactly when it was out_of_stock automatically, i.e. the
\* operator's own choice of status was active; a status the operator chose
\* (out_of_stock, inactive, coming_soon) before the product ran out is not
\* turned active by the restock.
C21_StockRecovery ==
    [][ ( /\ StockOperation
          /\ prod.manage_stock
          /\ prod.stock_quantity <= 0
          /\ prod'.stock_quantity > 0 ) =>
             ( prod'.status = "active" <=>
                  (prod.status = "out_of_stock" /\ chosen = "active") )
      ]_vars

\* C22 (as claimed) - A product with manage_stock = false is available
\* whatever its stock_quantity, its active flag and its status are.
C22_UntrackedAlwaysAvailable ==
    ~prod.manage_stock => is_available(prod)

\* C22 (amended) - For a product with manage_stock = false the quantity
\* never blocks availability: is_available is true exactly when the active
\* flag is set and the status is active or coming_soon, whatever the
\* stock_quantity; and reduce_stock on it returns True and changes nothing
\* of the product.
C22_UntrackedAvailability ==
    [][ /\ ~prod'.manage_stock =>
              ( is_available(prod') <=>
                   (prod'.active /\ prod'.status \in {"active", "coming_soon"}) )
        /\ \A q \in StockQuantities :
              (reduce_stock(q) /\ ~prod.manage_stock) =>
                 (result' = "True" /\ prod' = prod)
      ]_vars

\* C22 witness: an untracked product with no stock that is available, after
\* a reduce_stock call that returned True.
C22_Witness ==
    /\ ~prod.manage_stock
    /\ prod.stock_quantity <= 0
    /\ is_available(prod)
    /\ prod.status = "coming_soon"
    /\ result = "True"

\* The stored stock and the ledger tell the same story: the product holds
\* the quantity the last movement arrived at (the initial quantity when
\* there is none), and the status the quantity derives.
StockMatchesLedger ==
    /\ prod.stock_quantity =
          (IF ledger = <<>> THEN InitialQuantity ELSE Last(ledger).new_quantity)
    /\ prod = Product_save(prod)

\* C23: a stock change is one unit.  Whenever no request is between two of
\* its statements, also after a request failed half-way, the stored
\* quantity has not been changed without its ledger entry and no ledger
\* entry is stored whose quantity and status the product has not taken.
C23_AtomicStockChange ==
    (\A r \in Requests : sreqs[r].pc \in {"idle", "done", "failed"}) =>
        StockMatchesLedger

\* the change of quantity the finished requests have made together
SumDeltas == sreqs["r1"].delta + sreqs["r2"].delta

\* the units that reduce_stock calls answered with True have handed out
Granted(r) ==
    IF sreqs[r].returned = "True" /\ sreqs[r].delta < 0 THEN -sreqs[r].delta ELSE 0

\* the units a request has added to the stock
Added(r) == IF sreqs[r].delta > 0 THEN sreqs[r].delta ELSE 0

\* C24: two requests that each load the product and change its stock lose
\* no update: once both are finished the stored quantity is the initial
\* one plus both changes, and the reduce_stock calls that succeeded have
\* not handed out more units than the initial quantity and the units
\* added.
C24_NoLostUpdate ==
    (\A r \in Requests : sreqs[r].pc = "done") =>
        /\ prod.stock_quantity = InitialQuantity + SumDeltas
        /\ Granted("r1") + Granted("r2") <=
              InitialQuantity + Added("r1") + Added("r2")

\* C25: two requests that each save a line item of the same order, with
\* their insert, read-items and write-totals steps interleaved, leave the
\* totals of the full set of items: once both are finished the stored
\* subtotal, tax and total are those computed from all the item rows.
C25_TotalsOfAllItems ==
    (\A r \in Requests : oreqs[r].pc = "done" /\ oreqs[r].op = "item") =>
        LET o == calculate_totals(db, items)
        IN  /\ Len(items) = 2
            /\ db.subtotal = Quantize(o.subtotal)
            /\ db.tax      = Quantize(o.tax)
            /\ db.total    = Quantize(o.total)

\* C26: a line-item save never moves the status of an order.  The write of
\* a request that saves a line item, made from the copy of the order the
\* request loaded, leaves the stored status, also when another request has
\* changed it since; and every change of the stored status that the
\* interleaved line-item saves and change_status calls make is a pair of
\* the transition table.
C26_ItemSaveKeepsStatus ==
    [][ /\ \A r \in Requests :
              (order_write(r) /\ oreqs[r].op = "item") => db'.status = db.status
        /\ (\E r \in Requests : order_write(r) \/ order_update(r)) =>
              ( db'.status # db.status =>
                   <<db.status, db'.status>> \in TransitionTable )
      ]_vars

\* C27: when every change_status call names an actor, the history entries
\* of the order form, in every reachable state, a chain in creation order:
\* the first starts at open, each starts where the one before ended, each
\* is a pair of the transition table, the last ends at the order's current
\* status, and there are at most 4 of them.
C27_HistoryChain ==
    /\ Len(history) <= 4
    /\ \A i \in 1..Len(history) :
          /\ <<history[i].old_status, history[i].new_status>> \in TransitionTable
          /\ history[i].old_status =
                (IF i = 1 THEN "open" ELSE history[i - 1].new_status)
    /\ history # <<>> => Last(history).new_status = db.status

\* C28: for an order created open and changed only through change_status,
\* in every reachable state: a status from preparing on has prepared_at
\* set; delivered_at is set exactly when the status is delivered; a
\* cancelled order has no delivered_at, and an order cancelled directly
\* from open has neither timestamp.
C28_TimestampsFollowStatus ==
    /\ db.status \in {"preparing", "ready", "out_for_delivery", "delivered"} =>
          db.prepared_at # NullTime
    /\ db.delivered_at # NullTime <=> db.status = "delivered"
    /\ db.status = "cancelled" => db.delivered_at = NullTime
    /\ ( db.status = "cancelled" /\ Len(history) = 1
         /\ history[1].old_status = "open" ) =>
          (db.prepared_at = NullTime /\ db.delivered_at = NullTime)

\* C28 witness: an order delivered through change_status, prepared before it
\* was delivered.
C28_Witness ==
    /\ db.status = "delivered"
    /\ Len(history) = 3
    /\ db.prepared_at # NullTime
    /\ db.delivered_at > db.prepared_at

\* C29: with the operations run one after another, after any sequence of
\* creations and deletions of orders on a day (of the last order or of an
\* earlier one) no two existing orders share an order number, and a later
\* save of an existing order leaves its order number.
C29_NumbersUniqueAndStable ==
    [][ /\ \A i, j \in 1..Len(orders') :
              (orders'[i].order_number = orders'[j].order_number) => i = j
        /\ \A i \in 1..Len(orders) :
              resave_order(i) => orders'[i].order_number = orders[i].order_number
      ]_vars

\* C29 witness: 001 was deleted while 003 existed, 004 was created, 003 was
\* deleted, and one of the two orders left has been saved again.
C29_Witness ==
    /\ Len(orders) = 2
    /\ orders[1].order_number = <<"PD", 1, <<0, 0, 2>>>>
    /\ orders[2].order_number = <<"PD", 1, <<0, 0, 4>>>>
    /\ result = "None"

\* C30: on a stock-managed product with a non-negative stock_quantity,
\* reduce_stock(q) with q above the stock returns False and leaves the
\* quantity and the status, and with 1 <= q <= stock returns True and
\* lowers the quantity by exactly q; so the quantity is never negative
\* after reduce_stock and increase_stock calls with positive quantities,
\* made one at a time.
C30_ReduceStock ==
    [][ /\ \A q \in Units :
              ( reduce_stock(q) /\ prod.manage_stock /\ prod.stock_quantity >= 0 ) =>
                 IF q > prod.stock_quantity
                 THEN /\ result' = "False"
                      /\ prod'.stock_quantity = prod.stock_quantity
                      /\ prod'.status = prod.status
                 ELSE /\ result' = "True"
                      /\ prod'.stock_quantity = prod.stock_quantity - q
        /\ prod'.stock_quantity >= 0
      ]_vars

\* C30 witness: the last unit was taken by an earlier call and a call for
\* more than the stock holds has just been refused.
C30_Witness ==
    /\ prod.manage_stock
    /\ prod.stock_quantity = 1
    /\ prod.status = "active"
    /\ result = "False"

====
